---- MODULE Spec2Model ----
(***************************************************************************)
(* ShoulderAbductionDetector (shoulder_abduction_detector.py): the         *)
(* repetition detection engine, as a state machine over detector records.  *)
(*                                                                         *)
(* Units.  Angles are whole degrees.  Time is whole milliseconds           *)
(* (time.time() is seconds: 0.2 s is 200).  cumulative_movement is kept in *)
(* units of 1/CumScale degree: the mean of 2 or 3 whole-degree deltas is   *)
(* exact in these units, and the 0.92 decay truncates toward zero.         *)
(* Comparisons are exact; the code's binary floats can differ from them   *)
(* only when a quantity equals its threshold exactly.                      *)
(***************************************************************************)
EXTENDS Integers, Sequences, FiniteSets, TLC

\* ------------------------------------------------------------ constants
None == -1

min_angle_threshold == 20
max_angle_threshold == 180
sustained_frames_fast == 2
sustained_frames_slow == 2
history_size == 6
\* min_phase_duration = 0.2 s, in ms
min_phase_duration == 200
\* movement_confirmation_threshold = 2.5, in tenths of a degree
movement_confirmation_threshold10 == 25
\* range_of_motion > 40
min_range_of_motion == 40

\* units of cumulative_movement per degree: 2 * 3 for the mean over 2 or 3
\* deltas, 25 * 25 so that two successive 23/25 decays of a mean are exact
CumScale == 2 * 3 * 25 * 25

NEUTRAL == "neutral"
UP_PHASE == "up_phase"
DOWN_PHASE == "down_phase"

Abs(x) == IF x < 0 THEN -x ELSE x
Max(a, b) == IF a > b THEN a ELSE b
Min(a, b) == IF a < b THEN a ELSE b
\* integer division truncating toward zero (the fixed-point image of x * 0.92)
DivTrunc(x, n) == IF x >= 0 THEN x \div n ELSE -((-x) \div n)

\* Python slice helpers on the history list
Last(h) == h[Len(h)]

\* ------------------------------------------------------------ RepData
NoRep == [start_time |-> None, end_time |-> None, max_angle |-> None,
          min_angle |-> None, duration |-> None]

RepData(start) == [NoRep EXCEPT !.start_time = start]

\* RepData.complete_rep: `if self.start_time:` is false for 0 as for None
complete_rep(rep, end_time) ==
    [rep EXCEPT !.end_time = end_time,
                !.duration = IF rep.start_time # None /\ rep.start_time # 0
                             THEN end_time - rep.start_time
                             ELSE rep.duration]

\* ------------------------------------------------------------ __init__
ValidArms == {"left", "right"}

\* the limb names a caller may pass
ArmNames == {"left", "right", "LEFT", "Right", "both", ""}

\* str.lower on those names
Lower(name) ==
    IF name = "LEFT" THEN "left"
    ELSE IF name = "Right" THEN "right"
    ELSE name

AngleKey(arm) == IF arm = "left" THEN "left_shoulder" ELSE "right_shoulder"

Construct(arm, t) ==
    [arm |-> IF Lower(arm) \in ValidArms THEN Lower(arm) ELSE "right",
     angle_key |-> AngleKey(IF Lower(arm) \in ValidArms THEN Lower(arm)
                                                       ELSE "right"),
     up_movement_count |-> 0,
     down_movement_count |-> 0,
     state |-> NEUTRAL,
     rep_count |-> 0,
     current_rep |-> NoRep,
     rep_history |-> << >>,
     angle_history |-> << >>,
     last_angle |-> None,
     peak_angle |-> None,
     valley_angle |-> None,
     state_change_time |-> t,
     current_movement_direction |-> 0,
     cumulative_movement |-> 0]

\* ------------------------------------------------------------ reset
\* faulty variant: the ledger and the count are not cleared
resetKeepsLedger(d) ==
    [d EXCEPT !.state = NEUTRAL,
              !.current_rep = NoRep,
              !.last_angle = None,
              !.peak_angle = None,
              !.valley_angle = None,
              !.angle_history = << >>,
              !.up_movement_count = 0,
              !.down_movement_count = 0,
              !.current_movement_direction = 0,
              !.cumulative_movement = 0]

\* faulty variant: the ledger is cleared but the count is not
resetKeepsCount(d) ==
    [d EXCEPT !.state = NEUTRAL,
              !.current_rep = NoRep,
              !.rep_history = << >>,
              !.last_angle = None,
              !.peak_angle = None,
              !.valley_angle = None,
              !.angle_history = << >>,
              !.up_movement_count = 0,
              !.down_movement_count = 0,
              !.current_movement_direction = 0,
              !.cumulative_movement = 0]

\* faulty variant: the movement counters survive a reset
resetKeepsCounters(d) ==
    [d EXCEPT !.state = NEUTRAL,
              !.rep_count = 0,
              !.current_rep = NoRep,
              !.rep_history = << >>,
              !.last_angle = None,
              !.peak_angle = None,
              !.valley_angle = None,
              !.angle_history = << >>,
              !.current_movement_direction = 0,
              !.cumulative_movement = 0]

reset(d) ==
    [d EXCEPT !.state = NEUTRAL,
              !.rep_count = 0,
              !.current_rep = NoRep,
              !.rep_history = << >>,
              !.last_angle = None,
              !.peak_angle = None,
              !.valley_angle = None,
              !.angle_history = << >>,
              !.up_movement_count = 0,
              !.down_movement_count = 0,
              !.current_movement_direction = 0,
              !.cumulative_movement = 0]

\* ------------------------------------------------------------ history
\* faulty variant: on overflow the newest reading is the one dropped
HistoryDropsNewest(d, angle) ==
    LET h == Append(d.angle_history, angle)
    IN  [d EXCEPT !.angle_history =
                      IF Len(h) > history_size THEN SubSeq(h, 1, history_size)
                                               ELSE h]

_update_angle_history(d, angle) ==
    LET h == Append(d.angle_history, angle)
    IN  [d EXCEPT !.angle_history =
                      IF Len(h) > history_size THEN Tail(h) ELSE h]

\* ------------------------------------------------------------ classifier
\* recent_changes: h[i] - h[i-1] for i in range(len - 3, len) with i > 0
\* (0-based); 1-based these are the positions j in len-2 .. len with j > 1.
RecentChangeIdx(h) == {j \in (Len(h) - 2)..Len(h) : j > 1}

Change(h, j) == h[j] - h[j - 1]

RECURSIVE SumOver(_, _)
SumOver(h, S) ==
    IF S = {} THEN 0
    ELSE LET j == CHOOSE x \in S : TRUE
         IN  Change(h, j) + SumOver(h, S \ {j})

total_movement(h) == IF Len(h) >= 4 THEN h[Len(h)] - h[Len(h) - 3] ELSE 0

\* change > 4, change < -4
fast_up_moves(h) == Cardinality({j \in RecentChangeIdx(h) : Change(h, j) > 4})
fast_down_moves(h) == Cardinality({j \in RecentChangeIdx(h) : Change(h, j) < -4})
\* change > 0.3, change < -0.3
slow_up_moves(h) ==
    Cardinality({j \in RecentChangeIdx(h) : Change(h, j) * 10 > 3})
slow_down_moves(h) ==
    Cardinality({j \in RecentChangeIdx(h) : Change(h, j) * 10 < -3})

\* avg_change = sum / len; abs(avg_change) > 0.2 adds it, else decay by 0.92
CumulativeAfter(d) ==
    LET h == d.angle_history
        n == Cardinality(RecentChangeIdx(h))
        s == SumOver(h, RecentChangeIdx(h))
    IN  IF Abs(s) * 10 > 2 * n
        THEN d.cumulative_movement + (s * CumScale) \div n
        ELSE DivTrunc(d.cumulative_movement * 92, 100)

\* faulty variant: a classification leaves the opposite counter alone
ClassifierKeepsOpposite(d) ==
    LET h == d.angle_history
        tm == total_movement(h)
        cum == CumulativeAfter(d)
    IN  IF Len(h) < 3 THEN [det |-> d, dir |-> 0]
        ELSE IF fast_up_moves(h) >= 2 /\ tm * 10 > movement_confirmation_threshold10
        THEN [det |-> [d EXCEPT !.up_movement_count = @ + 1,
                                !.cumulative_movement = Max(0, cum)],
              dir |-> 1]
        ELSE IF fast_down_moves(h) >= 2 /\ tm * 10 < -movement_confirmation_threshold10
        THEN [det |-> [d EXCEPT !.down_movement_count = @ + 1,
                                !.cumulative_movement = Min(0, cum)],
              dir |-> -1]
        ELSE IF slow_up_moves(h) >= 2 /\ cum > 2 * CumScale
        THEN [det |-> [d EXCEPT !.up_movement_count = @ + 1,
                                !.cumulative_movement = cum],
              dir |-> 1]
        ELSE IF slow_down_moves(h) >= 2 /\ cum < -(2 * CumScale)
        THEN [det |-> [d EXCEPT !.down_movement_count = @ + 1,
                                !.cumulative_movement = cum],
              dir |-> -1]
        ELSE IF Abs(tm) < 3
        THEN [det |-> [d EXCEPT !.up_movement_count = Max(0, @ - 1),
                                !.down_movement_count = Max(0, @ - 1),
                                !.cumulative_movement = cum],
              dir |-> 0]
        ELSE [det |-> [d EXCEPT !.cumulative_movement = cum], dir |-> 0]

\* faulty variant: the classifier starts after two readings
ClassifierWarmsUpInTwo(d) ==
    LET h == d.angle_history
        tm == total_movement(h)
        cum == CumulativeAfter(d)
    IN  IF Len(h) < 2 THEN [det |-> d, dir |-> 0]
        ELSE IF fast_up_moves(h) >= 2 /\ tm * 10 > movement_confirmation_threshold10
        THEN [det |-> [d EXCEPT !.up_movement_count = @ + 1,
                                !.down_movement_count = 0,
                                !.cumulative_movement = Max(0, cum)],
              dir |-> 1]
        ELSE IF fast_down_moves(h) >= 2 /\ tm * 10 < -movement_confirmation_threshold10
        THEN [det |-> [d EXCEPT !.down_movement_count = @ + 1,
                                !.up_movement_count = 0,
                                !.cumulative_movement = Min(0, cum)],
              dir |-> -1]
        ELSE IF slow_up_moves(h) >= 2 /\ cum > 2 * CumScale
        THEN [det |-> [d EXCEPT !.up_movement_count = @ + 1,
                                !.down_movement_count = 0,
                                !.cumulative_movement = cum],
              dir |-> 1]
        ELSE IF slow_down_moves(h) >= 2 /\ cum < -(2 * CumScale)
        THEN [det |-> [d EXCEPT !.down_movement_count = @ + 1,
                                !.up_movement_count = 0,
                                !.cumulative_movement = cum],
              dir |-> -1]
        ELSE IF Abs(tm) < 3
        THEN [det |-> [d EXCEPT !.up_movement_count = Max(0, @ - 1),
                                !.down_movement_count = Max(0, @ - 1),
                                !.cumulative_movement = cum],
              dir |-> 0]
        ELSE [det |-> [d EXCEPT !.cumulative_movement = cum], dir |-> 0]

\* returns the detector after the call and the direction returned
_get_sustained_movement_direction(d) ==
    LET h == d.angle_history
        tm == total_movement(h)
        cum == CumulativeAfter(d)
    IN  IF Len(h) < 3 THEN [det |-> d, dir |-> 0]
        ELSE IF fast_up_moves(h) >= 2 /\ tm * 10 > movement_confirmation_threshold10
        THEN [det |-> [d EXCEPT !.up_movement_count = @ + 1,
                                !.down_movement_count = 0,
                                !.cumulative_movement = Max(0, cum)],
              dir |-> 1]
        ELSE IF fast_down_moves(h) >= 2 /\ tm * 10 < -movement_confirmation_threshold10
        THEN [det |-> [d EXCEPT !.down_movement_count = @ + 1,
                                !.up_movement_count = 0,
                                !.cumulative_movement = Min(0, cum)],
              dir |-> -1]
        ELSE IF slow_up_moves(h) >= 2 /\ cum > 2 * CumScale
        THEN [det |-> [d EXCEPT !.up_movement_count = @ + 1,
                                !.down_movement_count = 0,
                                !.cumulative_movement = cum],
              dir |-> 1]
        ELSE IF slow_down_moves(h) >= 2 /\ cum < -(2 * CumScale)
        THEN [det |-> [d EXCEPT !.down_movement_count = @ + 1,
                                !.up_movement_count = 0,
                                !.cumulative_movement = cum],
              dir |-> -1]
        ELSE IF Abs(tm) < 3
        THEN [det |-> [d EXCEPT !.up_movement_count = Max(0, @ - 1),
                                !.down_movement_count = Max(0, @ - 1),
                                !.cumulative_movement = cum],
              dir |-> 0]
        ELSE [det |-> [d EXCEPT !.cumulative_movement = cum], dir |-> 0]

\* ------------------------------------------------------------ confirmation
\* abs(cumulative_movement) > movement_confirmation_threshold * 1.5
_is_movement_confirmed(d, direction) ==
    LET fast == Abs(d.cumulative_movement) * 100
                    > movement_confirmation_threshold10 * 15 * CumScale
    IN  IF direction = 1
        THEN IF fast THEN d.up_movement_count >= sustained_frames_fast
                     ELSE d.up_movement_count >= sustained_frames_slow
        ELSE IF direction = -1
        THEN IF fast THEN d.down_movement_count >= sustained_frames_fast
                     ELSE d.down_movement_count >= sustained_frames_slow
        ELSE FALSE

\* ------------------------------------------------------------ state change
\* min_time_required: min_phase_duration, times 0.6 when
\* abs(cumulative_movement) > movement_confirmation_threshold * 2.
\* Returned in tenths of a millisecond so that the 0.6 factor stays whole.
\* faulty variant: no minimum time in a phase
NoMinTime(d) == 0

min_time_required10(d) ==
    IF Abs(d.cumulative_movement) * 10 > movement_confirmation_threshold10 * 2 * CumScale
    THEN min_phase_duration * 6
    ELSE min_phase_duration * 10

\* faulty variant: the opening threshold is inclusive
OpensAtOrAbove(current_angle) == current_angle >= min_angle_threshold + 15

\* current_angle > self.min_angle_threshold + 15
OpensAbove(current_angle) == current_angle > min_angle_threshold + 15

\* faulty variant: UP_PHASE closes straight to NEUTRAL at rest
StateTransitionShortcut(d, movement_direction, current_angle) ==
    IF d.state = NEUTRAL
    THEN IF /\ movement_direction = 1
            /\ _is_movement_confirmed(d, 1)
            /\ OpensAbove(current_angle)
         THEN UP_PHASE ELSE d.state
    ELSE IF d.state = UP_PHASE
    THEN IF current_angle <= min_angle_threshold + 10
         THEN NEUTRAL
         ELSE IF \/ (movement_direction = -1 /\ _is_movement_confirmed(d, -1))
                 \/ current_angle > max_angle_threshold
              THEN DOWN_PHASE ELSE d.state
    ELSE IF current_angle <= min_angle_threshold + 10
         THEN NEUTRAL
         ELSE IF movement_direction = 1 /\ _is_movement_confirmed(d, 1)
              THEN UP_PHASE ELSE d.state

\* faulty variant: in DOWN_PHASE a confirmed rise is looked at first
StateTransitionUpFirst(d, movement_direction, current_angle) ==
    IF d.state = NEUTRAL
    THEN IF /\ movement_direction = 1
            /\ _is_movement_confirmed(d, 1)
            /\ OpensAbove(current_angle)
         THEN UP_PHASE ELSE d.state
    ELSE IF d.state = UP_PHASE
    THEN IF \/ (movement_direction = -1 /\ _is_movement_confirmed(d, -1))
            \/ current_angle > max_angle_threshold
         THEN DOWN_PHASE ELSE d.state
    ELSE IF movement_direction = 1 /\ _is_movement_confirmed(d, 1)
         THEN UP_PHASE
         ELSE IF current_angle <= min_angle_threshold + 10
              THEN NEUTRAL ELSE d.state

\* The transition table, evaluated once the dwell gate has passed.
StateTransitionLogic(d, movement_direction, current_angle) ==
    IF d.state = NEUTRAL
    THEN IF /\ movement_direction = 1
            /\ _is_movement_confirmed(d, 1)
            /\ OpensAbove(current_angle)
         THEN UP_PHASE ELSE d.state
    ELSE IF d.state = UP_PHASE
    THEN IF \/ (movement_direction = -1 /\ _is_movement_confirmed(d, -1))
            \/ current_angle > max_angle_threshold
         THEN DOWN_PHASE ELSE d.state
    ELSE IF current_angle <= min_angle_threshold + 10
         THEN NEUTRAL
         ELSE IF movement_direction = 1 /\ _is_movement_confirmed(d, 1)
              THEN UP_PHASE ELSE d.state

\* returns the detector after the call (the classifier runs a second time
\* here and mutates the counters again) and the new state.  current_time is
\* this method's own time.time() read.
_detect_state_change(d, current_angle, current_time) ==
    IF Len(d.angle_history) < 3 THEN [det |-> d, new_state |-> d.state]
    ELSE LET r == _get_sustained_movement_direction(d)
             d1 == r.det
             time_in_current_state == current_time - d1.state_change_time
         IN  IF time_in_current_state * 10 < min_time_required10(d1)
             THEN [det |-> d1, new_state |-> d1.state]
             ELSE [det |-> d1,
                   new_state |-> StateTransitionLogic(d1, r.dir, current_angle)]

\* ------------------------------------------------------------ transitions
\* `x or y` on an Optional[float]: None and 0 are both falsy
Or(x, y) == IF x = None \/ x = 0 THEN y ELSE x

range_of_motion(d, angle) == Or(d.peak_angle, 0) - Or(d.valley_angle, angle)

\* faulty variant: the gate compares with 4 instead of 40
RangeGateTypo(rom) == rom * 10 > min_range_of_motion

\* the > 40 validity gate of a closing candidate
RangeGate(rom) == rom > min_range_of_motion

\* faulty variant: the count is incremented outside the range check
CloseRepCountsAll(d, angle, current_time) ==
    LET d1 == IF d.current_rep # NoRep
              THEN IF RangeGate(range_of_motion(d, angle))
                   THEN LET rep == [complete_rep(d.current_rep, current_time)
                                      EXCEPT !.min_angle = Or(d.valley_angle, angle)]
                        IN  [d EXCEPT !.rep_history = Append(@, rep),
                                      !.rep_count = @ + 1,
                                      !.current_rep = NoRep]
                   ELSE [d EXCEPT !.rep_count = @ + 1, !.current_rep = NoRep]
              ELSE d
    IN  [d1 EXCEPT !.peak_angle = None, !.valley_angle = None]

\* faulty variant: committing a rep starts the ledger afresh
CloseRepOverwrites(d, angle, current_time) ==
    LET d1 == IF d.current_rep # NoRep
              THEN IF RangeGate(range_of_motion(d, angle))
                   THEN LET rep == [complete_rep(d.current_rep, current_time)
                                      EXCEPT !.min_angle = Or(d.valley_angle, angle)]
                        IN  [d EXCEPT !.rep_history = <<rep>>,
                                      !.rep_count = @ + 1,
                                      !.current_rep = NoRep]
                   ELSE [d EXCEPT !.current_rep = NoRep]
              ELSE d
    IN  [d1 EXCEPT !.peak_angle = None, !.valley_angle = None]

\* faulty variant: a discarded candidate stays in place
CloseRepKeepsCandidate(d, angle, current_time) ==
    LET d1 == IF d.current_rep # NoRep
              THEN IF RangeGate(range_of_motion(d, angle))
                   THEN LET rep == [complete_rep(d.current_rep, current_time)
                                      EXCEPT !.min_angle = Or(d.valley_angle, angle)]
                        IN  [d EXCEPT !.rep_history = Append(@, rep),
                                      !.rep_count = @ + 1,
                                      !.current_rep = NoRep]
                   ELSE d
              ELSE d
    IN  [d1 EXCEPT !.peak_angle = None, !.valley_angle = None]

\* the NEUTRAL <- DOWN_PHASE branch
CloseRep(d, angle, current_time) ==
    LET d1 == IF d.current_rep # NoRep
              THEN IF RangeGate(range_of_motion(d, angle))
                   THEN LET rep == [complete_rep(d.current_rep, current_time)
                                      EXCEPT !.min_angle = Or(d.valley_angle, angle)]
                        IN  [d EXCEPT !.rep_history = Append(@, rep),
                                      !.rep_count = @ + 1,
                                      !.current_rep = NoRep]
                   ELSE [d EXCEPT !.current_rep = NoRep]
              ELSE d
    IN  [d1 EXCEPT !.peak_angle = None, !.valley_angle = None]

\* faulty variant: the drift is carried into the next phase
TransitionKeepsDrift(d, new_state, angle, current_time) ==
    LET d1 == IF new_state = UP_PHASE /\ d.state = NEUTRAL
              THEN [d EXCEPT !.current_rep = RepData(current_time),
                             !.peak_angle = angle,
                             !.valley_angle = angle]
              ELSE IF new_state = UP_PHASE /\ d.state = DOWN_PHASE
              THEN d
              ELSE IF new_state = DOWN_PHASE /\ d.state = UP_PHASE
              THEN IF d.current_rep # NoRep
                   THEN [d EXCEPT !.current_rep.max_angle = d.peak_angle]
                   ELSE d
              ELSE IF new_state = NEUTRAL /\ d.state = DOWN_PHASE
              THEN CloseRep(d, angle, current_time)
              ELSE d
    IN  [d1 EXCEPT !.state = new_state,
                   !.state_change_time = current_time,
                   !.up_movement_count = 0,
                   !.down_movement_count = 0]

_handle_state_transition(d, new_state, angle, current_time) ==
    LET d1 == IF new_state = UP_PHASE /\ d.state = NEUTRAL
              THEN [d EXCEPT !.current_rep = RepData(current_time),
                             !.peak_angle = angle,
                             !.valley_angle = angle]
              ELSE IF new_state = UP_PHASE /\ d.state = DOWN_PHASE
              THEN d
              ELSE IF new_state = DOWN_PHASE /\ d.state = UP_PHASE
              THEN IF d.current_rep # NoRep
                   THEN [d EXCEPT !.current_rep.max_angle = d.peak_angle]
                   ELSE d
              ELSE IF new_state = NEUTRAL /\ d.state = DOWN_PHASE
              THEN CloseRep(d, angle, current_time)
              ELSE d
    IN  [d1 EXCEPT !.state = new_state,
                   !.state_change_time = current_time,
                   !.up_movement_count = 0,
                   !.down_movement_count = 0,
                   !.cumulative_movement = 0]

\* faulty variant: the extreme follows the latest reading
TrackLatest(d, angle) ==
    IF d.state = UP_PHASE THEN [d EXCEPT !.peak_angle = angle]
    ELSE IF d.state = DOWN_PHASE THEN [d EXCEPT !.valley_angle = angle]
    ELSE d

_update_angle_tracking(d, angle) ==
    IF d.state = UP_PHASE
    THEN IF d.peak_angle = None \/ angle > d.peak_angle
         THEN [d EXCEPT !.peak_angle = angle] ELSE d
    ELSE IF d.state = DOWN_PHASE
    THEN IF d.valley_angle = None \/ angle < d.valley_angle
         THEN [d EXCEPT !.valley_angle = angle] ELSE d
    ELSE d

\* ------------------------------------------------------------ update
\* 'state': self.state.value.replace('_', ' ').title()
StateTitle(s) ==
    IF s = NEUTRAL THEN "Neutral"
    ELSE IF s = UP_PHASE THEN "Up Phase" ELSE "Down Phase"

NoDetection(d) ==
    [rep_count |-> d.rep_count, state |-> "No Detection", angle |-> None]

\* The classifier call of update itself (line 255); its result is only
\* reported, its side effects on the counters stay.
FirstClassification(d) == _get_sustained_movement_direction(d).det

\* update with a reading present.  t1 is update's time.time() read, t2 the
\* later read inside _detect_state_change (t1 <= t2).
UpdateValid(d, raw_angle, t1, t2) ==
    LET d1 == _update_angle_history(d, raw_angle)
        d2 == FirstClassification(d1)
        r == _detect_state_change(d2, raw_angle, t2)
        d3 == IF r.new_state # r.det.state
              THEN _handle_state_transition(r.det, r.new_state, raw_angle, t1)
              ELSE r.det
        d4 == _update_angle_tracking(d3, raw_angle)
    IN  [d4 EXCEPT !.last_angle = raw_angle]

\* faulty variant: a missing reading clears the history window
UpdateMissingClears(d) == [d EXCEPT !.angle_history = << >>]

\* update with the reading missing: the early return
UpdateMissing(d) == d

update(d, raw_angle, t1, t2) ==
    IF raw_angle = None THEN UpdateMissing(d) ELSE UpdateValid(d, raw_angle, t1, t2)

Status(d0, d1, raw_angle) ==
    IF raw_angle = None THEN NoDetection(d0)
    ELSE [rep_count |-> d1.rep_count, state |-> StateTitle(d1.state),
          angle |-> raw_angle]

\* ------------------------------------------------------------ switch_arm
\* faulty variant: an invalid name still resets the detector
SwitchArmResetsAnyway(d, new_arm) ==
    IF Lower(new_arm) \notin ValidArms
    THEN [det |-> reset(d), ok |-> FALSE]
    ELSE [det |-> reset([d EXCEPT !.arm = Lower(new_arm),
                                  !.angle_key = AngleKey(Lower(new_arm))]),
          ok |-> TRUE]

\* faulty variant: the arm is switched, the detector is not reset
SwitchArmKeepsState(d, new_arm) ==
    IF Lower(new_arm) \notin ValidArms
    THEN [det |-> d, ok |-> FALSE]
    ELSE [det |-> [d EXCEPT !.arm = Lower(new_arm),
                            !.angle_key = AngleKey(Lower(new_arm))],
          ok |-> TRUE]

\* returns the detector after the call and the value returned
switch_arm(d, new_arm) ==
    IF Lower(new_arm) \notin ValidArms
    THEN [det |-> d, ok |-> FALSE]
    ELSE [det |-> reset([d EXCEPT !.arm = Lower(new_arm),
                                  !.angle_key = AngleKey(Lower(new_arm))]),
          ok |-> TRUE]

\* ------------------------------------------------------------ get_stats
RECURSIVE SeqSum(_)
SeqSum(q) == IF q = << >> THEN 0 ELSE Head(q) + SeqSum(Tail(q))

\* `if rep.duration`: None and 0 are both falsy
Truthy(x) == x # None /\ x # 0

\* round(num / den, 0) for num >= 0, den > 0: nearest whole, ties to even
RoundHalfEven(num, den) ==
    LET q == num \div den
        r == num % den
    IN  IF 2 * r > den THEN q + 1
        ELSE IF 2 * r < den THEN q
        ELSE IF q % 2 = 0 THEN q ELSE q + 1

durations(d) == SelectSeq([i \in 1..Len(d.rep_history) |-> d.rep_history[i].duration],
                          Truthy)

HasRange(rep) == rep.max_angle # None /\ rep.min_angle # None

ranges(d) ==
    LET withRange == SelectSeq(d.rep_history, HasRange)
    IN  [i \in 1..Len(withRange) |-> withRange[i].max_angle - withRange[i].min_angle]

\* faulty variant: the empty structure carries last_rep_duration too
EmptyStatsWithLast(d) ==
    [total_reps |-> 0, avg_duration |-> 0, avg_range_of_motion |-> 0,
     last_rep_duration |-> 0, arm |-> d.arm]

\* the structure returned for an empty ledger
EmptyStats(d) ==
    [total_reps |-> 0, avg_duration |-> 0, avg_range_of_motion |-> 0,
     arm |-> d.arm]

\* round(x, 1): avg_duration and last_rep_duration are in tenths of a
\* second (durations are ms), avg_range_of_motion in tenths of a degree
get_stats(d) ==
    IF d.rep_history = << >> THEN EmptyStats(d)
    ELSE [total_reps |-> Len(d.rep_history),
          avg_duration |->
              IF durations(d) # << >>
              THEN RoundHalfEven(SeqSum(durations(d)), 100 * Len(durations(d)))
              ELSE 0,
          avg_range_of_motion |->
              IF ranges(d) # << >>
              THEN RoundHalfEven(10 * SeqSum(ranges(d)), Len(ranges(d)))
              ELSE 0,
          last_rep_duration |->
              IF Truthy(Last(d.rep_history).duration)
              THEN RoundHalfEven(Last(d.rep_history).duration, 100)
              ELSE 0,
          arm |-> d.arm]

\* faulty variant: reading the statistics empties the ledger
GetStatsDrains(d) == [d EXCEPT !.rep_history = << >>]

\* the detector after get_stats: no attribute is assigned
AfterGetStats(d) == d

\* ------------------------------------------------------------ bounds
\* the clock when the detector is constructed (time.time() is positive)
T0 == 1000
\* a free run makes at most MaxTicks calls, one per frame period
MaxTicks == 8
\* a scripted run waits at most MaxWait frame periods before its first reading
MaxWait == 7

\* a run over two detector instances makes at most MaxPair update calls
MaxPair == 9

\* frame periods (ms between two calls) of the free runs and of the scripts
Paces == {70}
ScriptPaces == {30, 100}
ForkPaces == {30, 70}

\* the sources of the two-run comparisons
TwinSources == {{20, 50, 100}, {20, 30, 50}}

\* what the angle source of one free run can report, in whole degrees
Sources == {{20, 50, 100}, {20, 30, 50}, {38, 40, 42}, {20, 28, 35}}

\* the reading sequences of the scenarios
NeutralRep == <<20, 20, 25, 40, 70, 100, 140, 175, 140, 100, 60, 30, 18>>
Wiggle == <<20, 22, 19, 21, 20, 23, 19>>
Partial == <<20, 30, 50, 30, 20, 20, 20, 20>>
\* the arm goes past max_angle_threshold, then comes down to rest
Overhead == <<20, 60, 100, 140, 185, 140, 100, 60, 20, 20>>
\* the arm comes down, then rises again to exactly min_angle_threshold + 10
Rebound == <<20, 60, 100, 140, 100, 60, 20, 20, 20, 26, 32, 30>>
Scripts == {NeutralRep, Wiggle, Partial, Overhead, Rebound}

\* three full repetitions, for the runs that mix in the other operations
OneRep == <<20, 60, 100, 60, 20, 20, 20>>
ThreeReps == OneRep \o OneRep \o OneRep
ApiScripts == {ThreeReps, Partial}
ApiPaces == {70, 100}

\* the readings shared out between the two instances
PairScript == <<20, 60, 100, 20, 60, 100, 60, 20, 20, 20>>

Range(s) == {s[i] : i \in 1..Len(s)}

VARIABLES
    now,      \* the clock, ms
    pace,     \* this run's frame period, ms
    source,   \* the readings this run's angle source can report
    script,   \* the scenario's readings (<< >> in a free run)
    pos,      \* how many of them have been fed
    det,      \* the detector
    prev,     \* the detector as it was when the last call began
    call,     \* the last call: [op, angle, t1, t2]
    ret,      \* what the last call returned
    seen,     \* lowest and highest reading passed to update so far
    cycle,    \* rep_count and ledger when the current cycle opened
    entered,  \* when the detector entered its current phase: after the
              \* last call (at) and before it (was)
    span,     \* highest / lowest reading of the candidate's up / down calls
    fed,      \* the valid readings since construction or the last reset
    twin,     \* second run: "none", or where the comparison stands
    det2,     \* second run: its detector
    ret2      \* second run: what its last call returned

run1 == <<det, prev, call, ret, seen, cycle, entered, span, fed>>
env == <<pace, source, script, pos>>
run2 == <<twin, det2, ret2>>
vars == <<now, env, run1, run2>>

NoCall == [op |-> "init", angle |-> None, t1 |-> None, t2 |-> None]
NoRet == [rep_count |-> None, state |-> "", angle |-> None]
NoneSeen == [lo |-> None, hi |-> None]

See(s, a) ==
    IF s = NoneSeen THEN [lo |-> a, hi |-> a]
    ELSE [lo |-> Min(s.lo, a), hi |-> Max(s.hi, a)]

CycleBase(d) == [rep_count |-> d.rep_count, rep_history |-> d.rep_history]

\* a phase is entered by construction, by reset and by a transition
EnteredAt(t) == [at |-> t, was |-> t]

EnteredAfter(e, d0, d1, t) ==
    [at |-> IF d1.state # d0.state THEN t ELSE e.at, was |-> e.at]

NoSpan == [hi |-> None, lo |-> None]

\* hi: the opening reading and the readings of the calls that began in
\* UP_PHASE; lo: the readings of the calls that began in DOWN_PHASE
SpanAfter(sp, d0, d1, a) ==
    IF a = None THEN sp
    ELSE IF d0.state = NEUTRAL /\ d1.state = UP_PHASE
    THEN [hi |-> a, lo |-> None]
    ELSE IF d0.state = UP_PHASE
    THEN [sp EXCEPT !.hi = Max(@, a)]
    ELSE IF d0.state = DOWN_PHASE
    THEN [sp EXCEPT !.lo = IF @ = None THEN a ELSE Min(@, a)]
    ELSE sp

\* the ledger as it stood when the candidate now in progress was opened
CycleAfter(c, d0, d1) ==
    IF d0.state = NEUTRAL /\ d1.state = UP_PHASE THEN CycleBase(d0) ELSE c

InitCommon ==
    /\ now = T0
    /\ pos = 0
    /\ det = Construct("right", T0)
    /\ prev = det
    /\ call = NoCall
    /\ ret = NoRet
    /\ seen = NoneSeen
    /\ cycle = CycleBase(det)
    /\ entered = EnteredAt(T0)
    /\ span = NoSpan
    /\ fed = << >>
    /\ det2 = det
    /\ ret2 = NoRet

InitFree ==
    /\ script = << >>
    /\ source \in Sources
    /\ pace \in Paces

InitScript ==
    /\ script \in Scripts
    /\ source = Range(script)
    /\ pace \in ScriptPaces

Init == InitCommon /\ (InitFree \/ InitScript) /\ twin = "none"

\* one call of update at time t, with reading a (None: no reading)
CallUpdate(a, t) ==
    /\ now' = t
    /\ det' = update(det, a, t, t)
    /\ prev' = det
    /\ call' = [op |-> "update", angle |-> a, t1 |-> t, t2 |-> t]
    /\ ret' = Status(det, det', a)
    /\ seen' = IF a = None THEN seen ELSE See(seen, a)
    /\ cycle' = CycleAfter(cycle, det, det')
    /\ entered' = EnteredAfter(entered, det, det', t)
    /\ span' = SpanAfter(span, det, det', a)
    /\ fed' = IF a = None THEN fed ELSE Append(fed, a)

FreeRun == script = << >> /\ now + pace <= T0 + MaxTicks * pace

\* update({angle_key: a}) one frame period after the previous call
UpdateReading(a) ==
    /\ FreeRun
    /\ CallUpdate(a, now + pace)
    /\ UNCHANGED <<env, run2>>

\* update() with the angle_key reading missing
UpdateNoReading ==
    /\ FreeRun
    /\ CallUpdate(None, now + pace)
    /\ UNCHANGED <<env, run2>>

Reset ==
    /\ script = << >>
    /\ det' = reset(det)
    /\ prev' = det
    /\ call' = [op |-> "reset", angle |-> None, t1 |-> now, t2 |-> now]
    /\ ret' = NoRet
    /\ cycle' = CycleBase(det')
    /\ entered' = [at |-> now, was |-> entered.at]
    /\ span' = NoSpan
    /\ fed' = << >>
    /\ UNCHANGED <<now, env, seen, run2>>

\* a scenario: time passes between construction and the first reading
ScriptWait ==
    /\ script # << >>
    /\ pos = 0
    /\ now + pace <= T0 + MaxWait * pace
    /\ now' = now + pace
    /\ UNCHANGED <<env, run1, run2>>

\* a scenario: the next reading, one frame period after the previous one
ScriptFeed ==
    /\ script # << >>
    /\ pos < Len(script)
    /\ CallUpdate(script[pos + 1], now + pace)
    /\ pos' = pos + 1
    /\ UNCHANGED <<pace, source, script, run2>>

Next ==
    \/ \E a \in source : UpdateReading(a)
    \/ UpdateNoReading
    \/ Reset
    \/ ScriptWait
    \/ ScriptFeed

Spec == Init /\ [][Next]_vars

\* ------------------------------------------------------------ two runs
\* The same call made on the second detector.
CallUpdate2(a, t) ==
    /\ det2' = update(det2, a, t, t)
    /\ ret2' = Status(det2, det2', a)

\* Run 2 is run 1 with one extra update, its reading missing, inserted
\* between two valid readings; the valid readings keep their timestamps.
InitGap ==
    /\ InitCommon
    /\ script = << >>
    /\ source \in TwinSources
    /\ pace \in Paces
    /\ twin = "unused"

GapAfter(tw) ==
    IF tw = "pending" THEN "first" ELSE IF tw = "first" THEN "used" ELSE tw

GapUpdateBoth(a) ==
    /\ FreeRun
    /\ CallUpdate(a, now + pace)
    /\ CallUpdate2(a, now + pace)
    /\ twin' = GapAfter(twin)
    /\ UNCHANGED env

GapMissing ==
    /\ FreeRun
    /\ twin = "unused"
    /\ call.op = "update"
    /\ CallUpdate2(None, now)
    /\ twin' = "pending"
    /\ UNCHANGED <<now, env, run1>>

NextGap ==
    \/ \E a \in source : GapUpdateBoth(a)
    \/ GapMissing

SpecGap == InitGap /\ [][NextGap]_vars

\* Run 1 is reset at some time T after any history; run 2 is a detector
\* constructed at T for the same arm.  Both then get the same readings.
InitFork ==
    /\ InitCommon
    /\ script = << >>
    /\ source \in TwinSources
    /\ pace \in ForkPaces
    /\ twin = "before"

ForkUpdate(a) ==
    /\ FreeRun
    /\ twin = "before"
    /\ CallUpdate(a, now + pace)
    /\ UNCHANGED <<env, run2>>

ForkReset ==
    /\ twin = "before"
    /\ det' = reset(det)
    /\ prev' = det
    /\ call' = [op |-> "reset", angle |-> None, t1 |-> now, t2 |-> now]
    /\ ret' = NoRet
    /\ cycle' = CycleBase(det')
    /\ entered' = [at |-> now, was |-> entered.at]
    /\ span' = NoSpan
    /\ fed' = << >>
    /\ det2' = Construct(det.arm, now)
    /\ ret2' = NoRet
    /\ twin' = "after"
    /\ UNCHANGED <<now, env, seen>>

ForkUpdateBoth(a) ==
    /\ FreeRun
    /\ twin = "after"
    /\ CallUpdate(a, now + pace)
    /\ CallUpdate2(a, now + pace)
    /\ UNCHANGED <<env, twin>>

NextFork ==
    \/ \E a \in source : ForkUpdate(a)
    \/ ForkReset
    \/ \E a \in source : ForkUpdateBoth(a)

SpecFork == InitFork /\ [][NextFork]_vars

\* ------------------------------------------------------------ all operations
\* Run 1 gets update, reset, switch_arm and get_stats calls in any order;
\* run 2 gets the same calls without the get_stats calls.
InitApi ==
    /\ InitCommon
    /\ script \in ApiScripts
    /\ source = Range(script)
    /\ pace \in ApiPaces
    /\ twin = "api"

ApiUpdate ==
    /\ pos < Len(script)
    /\ CallUpdate(script[pos + 1], now + pace)
    /\ CallUpdate2(script[pos + 1], now + pace)
    /\ pos' = pos + 1
    /\ UNCHANGED <<pace, source, script, twin>>

ApiReset ==
    /\ det' = reset(det)
    /\ det2' = reset(det2)
    /\ prev' = det
    /\ call' = [op |-> "reset", angle |-> None, t1 |-> now, t2 |-> now]
    /\ ret' = NoRet
    /\ ret2' = NoRet
    /\ cycle' = CycleBase(det')
    /\ entered' = [at |-> now, was |-> entered.at]
    /\ span' = NoSpan
    /\ fed' = << >>
    /\ UNCHANGED <<now, env, seen, twin>>

ApiSwitchArm(new_arm) ==
    LET r == switch_arm(det, new_arm)
        r2 == switch_arm(det2, new_arm)
    IN  /\ det' = r.det
        /\ det2' = r2.det
        /\ prev' = det
        /\ call' = [op |-> "switch_arm", arm |-> new_arm, angle |-> None,
                    t1 |-> now, t2 |-> now]
        /\ ret' = [ok |-> r.ok]
        /\ ret2' = [ok |-> r2.ok]
        /\ cycle' = IF r.ok THEN CycleBase(det') ELSE cycle
        /\ entered' = [at |-> IF r.ok THEN now ELSE entered.at, was |-> entered.at]
        /\ span' = IF r.ok THEN NoSpan ELSE span
        /\ fed' = IF r.ok THEN << >> ELSE fed
        /\ UNCHANGED <<now, env, seen, twin>>

ApiGetStats ==
    /\ det' = AfterGetStats(det)
    /\ prev' = det
    /\ call' = [op |-> "get_stats", angle |-> None, t1 |-> now, t2 |-> now]
    /\ ret' = get_stats(det)
    /\ twin' = "read"
    /\ UNCHANGED <<now, env, seen, cycle, entered, span, fed, det2, ret2>>

NextApi ==
    \/ ApiUpdate
    \/ ApiReset
    \/ \E new_arm \in ArmNames : ApiSwitchArm(new_arm)
    \/ ApiGetStats

SpecApi == InitApi /\ [][NextApi]_vars

\* ------------------------------------------------------------ two instances
\* The two ShoulderAbductionDetector objects the application creates:
\* instance 1 (det) for the right arm, instance 2 (det2) for the left.
\* Every call is made on one of them, in any interleaving; a call on
\* instance i reads and assigns the attributes of the object Target(i).
Instances == {1, 2}

\* the limb names passed to switch_arm in these runs
PairArms == {"left", "both"}

\* faulty variant: both names refer to one object
SharedTarget(i) == 1

\* each constructor call creates an object of its own
Target(i) == i

Self(i) == IF Target(i) = 1 THEN det ELSE det2

\* `self.x = ...` inside a method called on instance i
AssignSelf(i, d) ==
    /\ det' = IF Target(i) = 1 THEN d ELSE det
    /\ det2' = IF Target(i) = 2 THEN d ELSE det2

InitPair ==
    /\ now = T0
    /\ pos = 0
    /\ det = Construct("right", T0)
    /\ det2 = Construct("left", T0)
    /\ prev = det
    /\ call = [op |-> "init", inst |-> 1, angle |-> None, t1 |-> None,
               t2 |-> None]
    /\ ret = NoRet
    /\ ret2 = NoRet
    /\ seen = NoneSeen
    /\ cycle = CycleBase(det)
    /\ entered = EnteredAt(T0)
    /\ span = NoSpan
    /\ fed = << >>
    /\ script = PairScript
    /\ source = Range(script)
    /\ pace \in Paces
    /\ twin = "pair"

PairGhosts == <<seen, cycle, entered, span, fed, ret2, twin>>

PairUpdate(i) ==
    /\ pos < MaxPair
    /\ pos < Len(script)
    /\ LET d == Self(i)
           a == script[pos + 1]
           t == now + pace
       IN  /\ AssignSelf(i, update(d, a, t, t))
           /\ prev' = d
           /\ call' = [op |-> "update", inst |-> i, angle |-> a, t1 |-> t,
                       t2 |-> t]
           /\ ret' = Status(d, update(d, a, t, t), a)
           /\ now' = t
    /\ pos' = pos + 1
    /\ UNCHANGED <<pace, source, script, PairGhosts>>

PairReset(i) ==
    /\ AssignSelf(i, reset(Self(i)))
    /\ prev' = Self(i)
    /\ call' = [op |-> "reset", inst |-> i, angle |-> None, t1 |-> now,
                t2 |-> now]
    /\ ret' = NoRet
    /\ UNCHANGED <<now, env, PairGhosts>>

PairSwitchArm(i, new_arm) ==
    /\ AssignSelf(i, switch_arm(Self(i), new_arm).det)
    /\ prev' = Self(i)
    /\ call' = [op |-> "switch_arm", inst |-> i, arm |-> new_arm,
                angle |-> None, t1 |-> now, t2 |-> now]
    /\ ret' = [ok |-> switch_arm(Self(i), new_arm).ok]
    /\ UNCHANGED <<now, env, PairGhosts>>

NextPair ==
    \/ \E i \in Instances : PairUpdate(i)
    \/ \E i \in Instances : PairReset(i)
    \/ \E i \in Instances : \E new_arm \in PairArms : PairSwitchArm(i, new_arm)

SpecPair == InitPair /\ [][NextPair]_vars

\* ------------------------------------------------------------ application
\* The control loop of main: which detector is current is decided by
\* current_exercise and by the arm of the current detector.  det is
\* right_abduction_detector, det2 is left_abduction_detector; the two
\* bicep detectors are objects of another class, and a call on one of them
\* touches neither det nor det2.  twin holds the selection:
\* [exercise, arm, enabled].
StartSelection == [exercise |-> "bicep", arm |-> "right", enabled |-> TRUE]

OtherArm(arm) == IF arm = "right" THEN "left" ELSE "right"

OtherExercise(e) == IF e = "bicep" THEN "abduction" ELSE "bicep"

\* the instance number of the abduction detector for an arm
Abduction(arm) == IF arm = "right" THEN 1 ELSE 2

\* key 'a' assigns current_detector and calls nothing on the detector
KeyAEffect(d) == d

\* the abduction detector that is current (when the exercise is abduction)
Current == Self(Abduction(twin.arm))

InitMain ==
    /\ now = T0
    /\ pos = 0
    /\ det = Construct("right", T0)
    /\ det2 = Construct("left", T0)
    /\ prev = det
    /\ call = [op |-> "init", angle |-> None, t1 |-> None, t2 |-> None]
    /\ ret = NoRet
    /\ ret2 = NoRet
    /\ seen = NoneSeen
    /\ cycle = CycleBase(det)
    /\ entered = EnteredAt(T0)
    /\ span = NoSpan
    /\ fed = << >>
    /\ script = OneRep
    /\ source = Range(script)
    /\ pace \in Paces
    /\ twin = StartSelection

MainGhosts == <<seen, cycle, entered, span, fed, ret2>>

\* the loop processes at most MaxFrames frames
MaxFrames == 7

\* exercise_results = current_detector.update(angles_dict), for a frame
\* whose reading is a (None when no pose was found)
Frame(a) ==
    /\ now + pace <= T0 + MaxFrames * pace
    /\ LET t == now + pace
           i == Abduction(twin.arm)
           d == Self(i)
       IN  /\ now' = t
           /\ call' = [op |-> "frame", angle |-> a, t1 |-> t, t2 |-> t]
           /\ IF twin.enabled /\ twin.exercise = "abduction"
              THEN /\ AssignSelf(i, update(d, a, t, t))
                   /\ prev' = d
                   /\ ret' = Status(d, update(d, a, t, t), a)
              ELSE UNCHANGED <<det, det2, prev, ret>>
    /\ UNCHANGED <<pace, source, script, twin, MainGhosts>>

\* a processed frame with pose landmarks
MainFrame ==
    /\ pos < Len(script)
    /\ Frame(script[pos + 1])
    /\ pos' = pos + 1

\* a processed frame without pose landmarks
MainFrameNoPose ==
    /\ Frame(None)
    /\ pos' = pos

KeyE ==
    /\ twin' = [twin EXCEPT !.enabled = ~ @]
    /\ call' = [op |-> "key_e", angle |-> None, t1 |-> now, t2 |-> now]
    /\ UNCHANGED <<now, env, det, det2, prev, ret, MainGhosts>>

KeyA ==
    /\ twin' = [twin EXCEPT !.arm = OtherArm(@)]
    /\ call' = [op |-> "key_a", angle |-> None, t1 |-> now, t2 |-> now]
    /\ IF twin.exercise = "abduction"
       THEN /\ AssignSelf(Abduction(OtherArm(twin.arm)),
                          KeyAEffect(Self(Abduction(OtherArm(twin.arm)))))
            /\ prev' = Self(Abduction(OtherArm(twin.arm)))
       ELSE UNCHANGED <<det, det2, prev>>
    /\ UNCHANGED <<now, env, ret, MainGhosts>>

KeyW ==
    /\ twin' = [twin EXCEPT !.exercise = OtherExercise(@)]
    /\ call' = [op |-> "key_w", angle |-> None, t1 |-> now, t2 |-> now]
    /\ UNCHANGED <<now, env, det, det2, prev, ret, MainGhosts>>

KeyX ==
    /\ call' = [op |-> "key_x", angle |-> None, t1 |-> now, t2 |-> now]
    /\ IF twin.exercise = "abduction"
       THEN /\ AssignSelf(Abduction(twin.arm), reset(Current))
            /\ prev' = Current
       ELSE UNCHANGED <<det, det2, prev>>
    /\ UNCHANGED <<now, env, ret, twin, MainGhosts>>

KeyT ==
    /\ twin.exercise = "abduction"
    /\ call' = [op |-> "key_t", angle |-> None, t1 |-> now, t2 |-> now]
    /\ ret' = get_stats(Current)
    /\ AssignSelf(Abduction(twin.arm), AfterGetStats(Current))
    /\ prev' = Current
    /\ UNCHANGED <<now, env, twin, MainGhosts>>

NextMain ==
    \/ MainFrame
    \/ MainFrameNoPose
    \/ KeyE
    \/ KeyA
    \/ KeyW
    \/ KeyX
    \/ KeyT

SpecMain == InitMain /\ [][NextMain]_vars

\* ------------------------------------------------------------ rest
\* The limb moves as a script says and then rests: from then on every
\* reading is valid and at most min_angle_threshold + 10, and the loop of
\* main keeps calling update for ever.
\* The detector looks at the clock only through the time spent in the
\* phase, compared with min_time_required (at most min_phase_duration).
\* Once that time has reached RestCap the clock of this run is held, which
\* leaves every such comparison as it is with the clock running (the
\* duration of a rep committed later is understated).  pos counts the
\* readings of the script; during the rest only its parity moves on.
RestCap == 300
RestPaces == {100}
\* the angle the limb rests at
RestSources == {{20}, {25}, {30}}
\* the rest begins in UP_PHASE, or in DOWN_PHASE
UpThenRest == <<20, 60, 100>>
DownThenRest == <<20, 60, 100, 60>>
\* the rest begins in UP_PHASE with the arm dropped from higher up
HighThenRest == <<20, 60, 100, 140>>
RestScripts == {UpThenRest, DownThenRest, HighThenRest}

Resting == pos >= Len(script)

InitRest ==
    /\ InitCommon
    /\ script \in RestScripts
    /\ source \in RestSources
    /\ pace \in RestPaces
    /\ twin = "rest"

RestClock ==
    IF now - det.state_change_time >= RestCap THEN now ELSE now + pace

RestUpdate(a, t) ==
    /\ now' = t
    /\ det' = update(det, a, t, t)
    /\ prev' = det
    /\ call' = [op |-> "update", angle |-> a, t1 |-> t, t2 |-> t]
    /\ ret' = Status(det, det', a)
    /\ UNCHANGED <<pace, source, script, seen, cycle, entered, span, fed, run2>>

\* a frame is taken: pos moves on
FrameTaken == pos' = IF pos <= Len(script) THEN pos + 1 ELSE Len(script)

\* the limb still moves: the next reading of the script
RestFeed ==
    /\ ~ Resting
    /\ RestUpdate(script[pos + 1], now + pace)
    /\ FrameTaken

\* the limb rests: a reading of at most min_angle_threshold + 10
RestReading ==
    /\ Resting
    /\ \E a \in source : RestUpdate(a, RestClock)
    /\ FrameTaken

NextRest ==
    \/ RestFeed
    \/ RestReading

\* the frame loop of main never stops: a frame is always taken in the end,
\* and every step of NextRest takes one
SpecRest == InitRest /\ [][NextRest]_vars /\ WF_pos(FrameTaken)

\* ------------------------------------------------------------ properties
Ledger == det.rep_history

Updated == call.op = "update" /\ call.angle # None
Entered(from, to) == Updated /\ prev.state = from /\ det.state = to

\* C1 as stated: after the thirteen readings of the neutral-rep scenario at
\* 30 ms intervals the ledger holds exactly one rep, from 18 to 175 degrees.
NeutralRepDone == script = NeutralRep /\ pace = 30 /\ pos = Len(NeutralRep)

Noise == seen # NoneSeen /\ seen.hi - seen.lo <= 4

C2_NoiseNeverConfirms ==
    Noise =>
        /\ det.up_movement_count < sustained_frames_slow
        /\ det.down_movement_count < sustained_frames_slow
        /\ det.state = NEUTRAL

\* C3: every rep in the ledger has duration = end_time - start_time >= 0
\* and max_angle - min_angle >= 40.
RepConserved(rep) ==
    /\ rep.start_time # None /\ rep.end_time # None /\ rep.duration # None
    /\ rep.duration = rep.end_time - rep.start_time
    /\ rep.duration >= 0
    /\ rep.max_angle # None /\ rep.min_angle # None
    /\ rep.max_angle - rep.min_angle >= min_range_of_motion

C3_RepConservation == \A i \in 1..Len(Ledger) : RepConserved(Ledger[i])

C3_Witness == Len(Ledger) >= 1 /\ Ledger[1].duration > 0

\* C4: an update whose reading is missing changes nothing in the detector
\* and returns 'No Detection' with the current rep_count.
MissingUpdated == call.op = "update" /\ call.angle = None

C4_MissingReadingShortCircuits ==
    MissingUpdated =>
        /\ det = prev
        /\ ret.state = "No Detection"
        /\ ret.rep_count = prev.rep_count
        /\ ret.angle = None

C4_Witness ==
    /\ MissingUpdated
    /\ det.state = DOWN_PHASE
    /\ det.down_movement_count > 0
    /\ Len(det.angle_history) = history_size

\* C5: with one missing reading inserted into the second run, the two
\* detectors agree in every field after each valid reading, and the two
\* runs return the same status for it.
C5_MissingDataTransparent ==
    twin \in {"unused", "pending", "first", "used"} =>
        /\ det2 = det
        /\ (Updated /\ twin # "pending" => ret2 = ret)

C5_Witness ==
    /\ twin = "first"
    /\ Entered(NEUTRAL, UP_PHASE)
    /\ det2.state = UP_PHASE

\* C6: after reset the phase is Neutral, rep_count 0 and the ledger empty,
\* and a second reset changes nothing.
C6_IdempotentReset ==
    call.op = "reset" =>
        /\ det.state = NEUTRAL
        /\ det.rep_count = 0
        /\ Ledger = << >>
        /\ reset(det) = det

C6_Witness ==
    /\ call.op = "reset"
    /\ prev.rep_count = 1
    /\ Len(prev.rep_history) = 1
    /\ Len(prev.angle_history) = history_size

\* C7 as stated: once run 1 has been reset at time T, it answers every
\* reading as run 2 does, whose detector was constructed at T: same
\* status, same phase, same ledger.
C7_ResetIsJustConstructed ==
    twin = "after" =>
        /\ ret = ret2
        /\ det.state = det2.state
        /\ det.rep_history = det2.rep_history

\* C8 as stated: an update that starts with both counters at zero never
\* confirms a direction, so it never takes a confirmation-gated transition.
C8_OneUpdateNeverConfirms ==
    (Updated /\ prev.up_movement_count = 0 /\ prev.down_movement_count = 0) =>
        /\ ~ _is_movement_confirmed(det, 1)
        /\ ~ _is_movement_confirmed(det, -1)
        /\ ~ Entered(NEUTRAL, UP_PHASE)
        /\ ~ Entered(DOWN_PHASE, UP_PHASE)

\* C9: a cycle that returns from DownPhase to Neutral with peak - valley
\* not above 40 leaves rep_count and the ledger as they were when the
\* cycle began, and drops the candidate.
PartialClosed ==
    /\ Entered(DOWN_PHASE, NEUTRAL)
    /\ prev.peak_angle - prev.valley_angle <= min_range_of_motion

C9_PartialMotionRejected ==
    PartialClosed =>
        /\ det.rep_count = cycle.rep_count
        /\ Ledger = cycle.rep_history
        /\ det.current_rep = NoRep

C9_Witness ==
    /\ PartialClosed
    /\ prev.peak_angle = 50
    /\ call.angle = 20
    /\ det.rep_count = 0

\* C10: while no reading has exceeded min_angle_threshold + 15 = 35 (the
\* wiggle 20,22,19,21,20,23,19 included) the phase is Neutral and
\* rep_count is 0.
SubThreshold == seen.hi <= min_angle_threshold + 15

C10_SubThresholdStaysNeutral ==
    SubThreshold => det.state = NEUTRAL /\ det.rep_count = 0

C10_Witness ==
    /\ seen.hi = min_angle_threshold + 15
    /\ call.angle = seen.hi
    /\ det.up_movement_count >= sustained_frames_slow
    /\ (now - det.state_change_time) * 10 >= min_time_required10(det)

C10_WiggleFed == script = Wiggle /\ pos = Len(Wiggle)

\* C11: over an update that begins and ends in UpPhase peak_angle does not
\* decrease; over one that begins and ends in DownPhase valley_angle does
\* not increase.
C11_MonotonicPhaseCoherence ==
    /\ (call.op = "update" /\ prev.state = UP_PHASE /\ det.state = UP_PHASE)
           => (det.peak_angle # None /\ det.peak_angle >= prev.peak_angle)
    /\ (call.op = "update" /\ prev.state = DOWN_PHASE /\ det.state = DOWN_PHASE)
           => (det.valley_angle # None /\ det.valley_angle <= prev.valley_angle)

\* a reading below the peak arrives in UpPhase and the phase stays UpPhase
C11_Witness ==
    /\ Updated
    /\ prev.state = UP_PHASE /\ det.state = UP_PHASE
    /\ call.angle < prev.peak_angle
    /\ det.peak_angle = prev.peak_angle

\* C12: after switch_arm to a valid limb, whatever came before, get_stats
\* reports total_reps 0, rep_count is 0, the phase Neutral, the ledger and
\* the history empty, and angle_key names the new limb's shoulder angle.
Switched == call.op = "switch_arm" /\ ret.ok

C12_LimbSwitchResets ==
    Switched =>
        /\ get_stats(det).total_reps = 0
        /\ det.rep_count = 0
        /\ det.state = NEUTRAL
        /\ det.rep_history = << >>
        /\ det.angle_history = << >>
        /\ det.arm = Lower(call.arm)
        /\ (det.arm = "left" => det.angle_key = "left_shoulder")
        /\ (det.arm = "right" => det.angle_key = "right_shoulder")

\* three reps accrued on the right arm, then switch_arm('left')
C12_Witness ==
    /\ Switched
    /\ call.arm = "left"
    /\ prev.arm = "right"
    /\ prev.rep_count = 3
    /\ Len(prev.rep_history) = 3

\* C13: switch_arm with a name that is neither 'left' nor 'right' in any
\* letter case returns False and changes no field of the detector.
InvalidSwitch == call.op = "switch_arm" /\ Lower(call.arm) \notin ValidArms

C13_InvalidLimbNoOp ==
    InvalidSwitch => (ret.ok = FALSE /\ det = prev)

C13_Witness ==
    /\ InvalidSwitch
    /\ call.arm = "both"
    /\ prev.state = UP_PHASE
    /\ prev.rep_count = 1
    /\ prev.current_rep # NoRep

\* C14 as stated: get_stats on an empty ledger returns a structure in which
\* total_reps, avg_duration, avg_range_of_motion and last_rep_duration are
\* all present and zero.
EmptyStatsRead == call.op = "get_stats" /\ prev.rep_history = << >>

C14_EmptyLedgerStats ==
    EmptyStatsRead =>
        /\ {"total_reps", "avg_duration", "avg_range_of_motion",
            "last_rep_duration"} \subseteq DOMAIN ret
        /\ ret.total_reps = 0
        /\ ret.avg_duration = 0
        /\ ret.avg_range_of_motion = 0
        /\ ret.last_rep_duration = 0

\* C14 amended: the structure holds total_reps, avg_duration and
\* avg_range_of_motion, all zero, and the arm; it has no last_rep_duration.
C14_EmptyLedgerStatsNoLast ==
    EmptyStatsRead =>
        /\ DOMAIN ret = {"total_reps", "avg_duration", "avg_range_of_motion",
                         "arm"}
        /\ ret.total_reps = 0
        /\ ret.avg_duration = 0
        /\ ret.avg_range_of_motion = 0
        /\ ret.arm = prev.arm

\* get_stats after the partial motion's candidate was discarded
C14_Witness ==
    /\ EmptyStatsRead
    /\ script = Partial /\ pos = Len(Partial)
    /\ seen.hi = 50
    /\ det.state = NEUTRAL
    /\ cycle.rep_count = 0 /\ span.lo # None

\* C15: run 1, with get_stats calls inserted anywhere, has the same
\* detector as run 2 after every call, and every update, reset and
\* switch_arm returns the same in both.
C15_GetStatsPureRead ==
    twin \in {"api", "read"} =>
        /\ det = det2
        /\ (call.op \in {"update", "reset", "switch_arm"} => ret = ret2)
        /\ (call.op = "get_stats" => det = prev)

\* a rep is committed by an update made after a get_stats call
C15_Witness ==
    /\ twin = "read"
    /\ Entered(DOWN_PHASE, NEUTRAL)
    /\ det.rep_count = 2
    /\ Len(det2.rep_history) = 2

Classified == _get_sustained_movement_direction(
                  FirstClassification(_update_angle_history(prev, call.angle)))

UpConfirmed == Classified.dir = 1 /\ _is_movement_confirmed(Classified.det, 1)
DownConfirmed == Classified.dir = -1 /\ _is_movement_confirmed(Classified.det, -1)

\* C17: every phase change made by an update is a row of the table with
\* its guard true: Neutral -> UpPhase needs Up confirmed and angle > 35,
\* UpPhase -> DownPhase needs Down confirmed or angle > 180, DownPhase ->
\* Neutral needs angle <= 30, DownPhase -> UpPhase needs Up confirmed; there
\* is no Neutral -> DownPhase and no UpPhase -> Neutral.
C17_TransitionTableConformance ==
    call.op = "update" =>
        /\ (Entered(NEUTRAL, UP_PHASE) =>
               UpConfirmed /\ call.angle > min_angle_threshold + 15)
        /\ (Entered(UP_PHASE, DOWN_PHASE) =>
               DownConfirmed \/ call.angle > max_angle_threshold)
        /\ (Entered(DOWN_PHASE, NEUTRAL) =>
               call.angle <= min_angle_threshold + 10)
        /\ (Entered(DOWN_PHASE, UP_PHASE) => UpConfirmed)
        /\ ~ (prev.state = NEUTRAL /\ det.state = DOWN_PHASE)
        /\ ~ (prev.state = UP_PHASE /\ det.state = NEUTRAL)

\* the transition by angle > max_angle_threshold alone
C17_Witness ==
    /\ Entered(UP_PHASE, DOWN_PHASE)
    /\ ~ DownConfirmed
    /\ call.angle > max_angle_threshold

\* C18 as stated: an update changes the phase only if at least 0.6 *
\* min_phase_duration has passed since the detector entered its phase (by
\* a transition, by construction or by reset), and at least
\* min_phase_duration unless the cumulative drift seen by that update
\* exceeds twice the movement confirmation threshold.
StrongDrift ==
    Abs(Classified.det.cumulative_movement) * 10
        > movement_confirmation_threshold10 * 2 * CumScale

C18_MinimumDwell ==
    (call.op = "update" /\ prev.state # det.state) =>
        /\ (call.t2 - entered.was) * 10 >= min_phase_duration * 6
        /\ (~ StrongDrift => call.t2 - entered.was >= min_phase_duration)

\* C19 as stated: a committed rep's max_angle is at least the opening
\* reading and every reading passed to an update that began in UpPhase
\* during the rep, and its min_angle is at most every reading passed to an
\* update that began in DownPhase, the closing reading included.
Committed == Updated /\ Len(det.rep_history) = Len(prev.rep_history) + 1

C19_ExtremesCoverTheRep ==
    Committed =>
        /\ Last(Ledger).max_angle >= span.hi
        /\ Last(Ledger).min_angle <= span.lo

\* C20: in DownPhase with the dwell time elapsed an update with angle <= 30
\* always goes to Neutral, also when Up is classified and confirmed in
\* that update; DownPhase -> UpPhase is taken only with angle > 30.
DwellElapsed ==
    (call.t2 - prev.state_change_time) * 10 >= min_time_required10(Classified.det)

C20_ClosingTakesPriority ==
    /\ (/\ Updated
        /\ prev.state = DOWN_PHASE
        /\ DwellElapsed
        /\ call.angle <= min_angle_threshold + 10) => det.state = NEUTRAL
    /\ (Entered(DOWN_PHASE, UP_PHASE) => call.angle > min_angle_threshold + 10)

\* closing at exactly 30 while Up is classified and confirmed
C20_Witness ==
    /\ Entered(DOWN_PHASE, NEUTRAL)
    /\ call.angle = min_angle_threshold + 10
    /\ UpConfirmed
    /\ DwellElapsed

\* C21: an update leaves the ledger unchanged or appends exactly one rep
\* to it, never touching the entries already there; rep_count changes only
\* by +1 and only in an update that goes from DownPhase to Neutral; one
\* cycle adds at most one rep.
IsPrefix(q, r) == Len(q) <= Len(r) /\ SubSeq(r, 1, Len(q)) = q

C21_LedgerAppendOnly ==
    call.op = "update" =>
        /\ IsPrefix(prev.rep_history, det.rep_history)
        /\ Len(det.rep_history) <= Len(prev.rep_history) + 1
        /\ (det.rep_count # prev.rep_count =>
               /\ det.rep_count = prev.rep_count + 1
               /\ Entered(DOWN_PHASE, NEUTRAL))
        /\ (Len(det.rep_history) # Len(prev.rep_history) =>
               Entered(DOWN_PHASE, NEUTRAL))
        /\ det.rep_count <= cycle.rep_count + 1
        /\ Len(det.rep_history) <= Len(cycle.rep_history) + 1

\* a second rep is appended behind the first
C21_Witness ==
    /\ Committed
    /\ Len(prev.rep_history) = 1
    /\ Len(det.rep_history) = 2
    /\ det.rep_history[1] = prev.rep_history[1]

\* C26: the history holds at most history_size readings and is the last
\* min(n, history_size) of the n valid readings received since
\* construction or the last reset, in arrival order.
LastOf(q, n) == SubSeq(q, Len(q) - n + 1, Len(q))

C26_HistoryWindow ==
    /\ Len(det.angle_history) <= history_size
    /\ det.angle_history = LastOf(fed, Min(Len(fed), history_size))

\* the seventh reading has pushed the first one out
C26_Witness ==
    /\ Updated
    /\ Len(fed) = history_size + 1
    /\ Len(prev.angle_history) = history_size
    /\ fed[1] # fed[2]
    /\ det.angle_history[1] = fed[2]

\* C22 as stated: in the application, after key 'a' (limb switch) or key
\* 'x' (reset) the abduction detector that is current is in the reset
\* state: phase Neutral, rep_count 0, empty ledger, empty history, zero
\* counters.
InResetState(d) ==
    /\ d.state = NEUTRAL
    /\ d.rep_count = 0
    /\ d.rep_history = << >>
    /\ d.angle_history = << >>
    /\ d.up_movement_count = 0
    /\ d.down_movement_count = 0
    /\ d.cumulative_movement = 0
    /\ d.current_rep = NoRep

C22_LimbSwitchResetsInApp ==
    (call.op \in {"key_a", "key_x"} /\ twin.exercise = "abduction") =>
        InResetState(Current)

\* C23 as stated: at any time exactly one of up_movement_count and
\* down_movement_count is non-zero.
C23_ExactlyOneNonZero ==
    (det.up_movement_count # 0) # (det.down_movement_count # 0)

\* C23 amended: at any time at most one of the two counters is non-zero;
\* both are zero at construction and right after a reset, and an update
\* that increments one counter leaves the other one at zero.
C23_AtMostOneNonZero ==
    /\ ~ (det.up_movement_count # 0 /\ det.down_movement_count # 0)
    /\ call.op \in {"init", "reset"} =>
           det.up_movement_count = 0 /\ det.down_movement_count = 0
    /\ (Updated /\ det.up_movement_count > prev.up_movement_count) =>
           det.down_movement_count = 0
    /\ (Updated /\ det.down_movement_count > prev.down_movement_count) =>
           det.up_movement_count = 0

\* a reset wipes a counter that was non-zero
C23_Witness ==
    /\ call.op = "reset"
    /\ prev.up_movement_count + prev.down_movement_count > 0
    /\ det.up_movement_count = 0 /\ det.down_movement_count = 0

\* C29: in every reachable state up_movement_count and down_movement_count
\* are non-negative integers and are never both non-zero.
C29_CountersNeverConflict ==
    /\ det.up_movement_count \in Nat
    /\ det.down_movement_count \in Nat
    /\ det.up_movement_count = 0 \/ det.down_movement_count = 0

\* a downward classification takes over from an upward one within a phase
C29_Witness ==
    /\ Updated
    /\ prev.state = det.state
    /\ prev.up_movement_count > 0
    /\ det.down_movement_count > 0
    /\ det.up_movement_count = 0

\* C24: a rep candidate (current_rep) exists exactly when the phase is not
\* Neutral; an update creates one only on Neutral -> UpPhase, and whenever
\* the phase is Neutral the candidate is gone.
C24_CandidateLifetime ==
    /\ (det.current_rep # NoRep) <=> (det.state # NEUTRAL)
    /\ (Updated /\ prev.current_rep = NoRep /\ det.current_rep # NoRep) =>
           /\ prev.state = NEUTRAL
           /\ det.state = UP_PHASE
           /\ det.current_rep = RepData(call.t1)
    /\ (Updated /\ prev.current_rep # NoRep /\ det.current_rep # NoRep) =>
           det.current_rep.start_time = prev.current_rep.start_time

\* a candidate is dropped, not committed, on the return to Neutral
C24_Witness ==
    /\ Entered(DOWN_PHASE, NEUTRAL)
    /\ prev.current_rep # NoRep
    /\ det.current_rep = NoRep
    /\ det.rep_history = prev.rep_history

\* C25: at the end of every update that changes the phase both movement
\* counters and the cumulative drift are zero, and after a return to
\* Neutral, with the rep committed or discarded, peak_angle and
\* valley_angle are none.
C25_EvidenceCleared ==
    /\ (Updated /\ prev.state # det.state) =>
           /\ det.up_movement_count = 0
           /\ det.down_movement_count = 0
           /\ det.cumulative_movement = 0
    /\ (Updated /\ prev.state # NEUTRAL /\ det.state = NEUTRAL) =>
           /\ det.peak_angle = None
           /\ det.valley_angle = None

\* a phase change that had evidence to clear, ending in Neutral
C25_Witness ==
    /\ Entered(DOWN_PHASE, NEUTRAL)
    /\ prev.down_movement_count > 0
    /\ prev.cumulative_movement # 0
    /\ prev.peak_angle # None
    /\ prev.valley_angle # None
    /\ det.cumulative_movement = 0
    /\ det.peak_angle = None

\* C27: while the history (the new reading included) holds fewer than 3
\* readings, the classifier reports no direction and leaves both movement
\* counters and the cumulative drift as they were, and update makes no
\* phase transition, whatever the angle and the elapsed time.
WarmingUp == Updated /\ Len(det.angle_history) < 3

C27_WarmUp ==
    WarmingUp =>
        /\ _get_sustained_movement_direction(
               _update_angle_history(prev, call.angle)).dir = 0
        /\ det.up_movement_count = prev.up_movement_count
        /\ det.down_movement_count = prev.down_movement_count
        /\ det.cumulative_movement = prev.cumulative_movement
        /\ det.state = prev.state
        /\ det.state_change_time = prev.state_change_time

\* the second reading is well above the opening threshold, has risen, and
\* comes after the minimum phase duration has elapsed
C27_Witness ==
    /\ WarmingUp
    /\ Len(det.angle_history) = 2
    /\ det.angle_history[2] - det.angle_history[1] > 4
    /\ OpensAbove(call.angle)
    /\ call.t2 - prev.state_change_time >= min_phase_duration

\* C30: in every reachable state rep_count equals the number of reps in
\* rep_history, so the rep_count of an update status equals the total_reps
\* that get_stats reports.
C30_CountMatchesLedger ==
    /\ det.rep_count = Len(det.rep_history)
    /\ get_stats(det).total_reps = det.rep_count
    /\ call.op = "update" => ret.rep_count = get_stats(det).total_reps
    /\ call.op = "get_stats" => ret.total_reps = det.rep_count

\* the statistics are read with two reps in the ledger
C30_Witness ==
    /\ call.op = "get_stats"
    /\ ret.total_reps = 2
    /\ det.rep_count = 2
    /\ Len(det.rep_history) = 2

\* C28 as stated: once every reading is valid and at most 30 and update
\* keeps being called, the detector eventually reaches Neutral from
\* whatever phase it was in.
C28_RestReachesNeutral == Resting ~> (det.state = NEUTRAL)

====
